---- MODULE Spec2Model ----
(***************************************************************************)
(* A model of CSVs_to_excel.py: combine_csv_files_to_excel, main and the   *)
(* two validators.  Strings are sequences of one-character strings, so     *)
(* that endswith, slicing, replace and concatenation are computed the way  *)
(* the Python code computes them.  A path inside the input folder is       *)
(* identified by its file name.                                            *)
(*                                                                         *)
(* The pandas/openpyxl calls are modelled by their effect on the book:     *)
(*   - ExcelWriter(path, engine='openpyxl') opens (creates or truncates)   *)
(*     the target and starts with a book that has no sheet;                *)
(*   - read_csv returns a frame or raises;                                 *)
(*   - to_excel writes into the sheet that already carries the name when   *)
(*     there is one (mode 'w'), creates the sheet otherwise, and may raise *)
(*     before the sheet is created or while its cells are written (the     *)
(*     sheet then stays in the book);                                      *)
(*   - leaving the with block saves the book once; saving a book without   *)
(*     a sheet raises IndexError, and the save may fail in the file        *)
(*     system.                                                             *)
(***************************************************************************)
EXTENDS Integers, Sequences, FiniteSets

VARIABLES
    surface,          \* "main" | "call" | "default" | "derive": how the code is entered
    typed,            \* the output name as typed at the prompt or passed by the caller
    dirExists,        \* whether folder_path exists
    listing,          \* the folder's entries, in directory-listing order
    content,          \* per entry: what reading and converting it results in
    pc,               \* position in main / combine_csv_files_to_excel
    run,              \* number of the current run over the same folder
    output_file_name, \* the parameter of combine_csv_files_to_excel
    csv_files,        \* list(folder_path.glob("*.csv"))
    idx,              \* loop position in csv_files (1-based)
    sheets,           \* the writer's book: sequence of sheets
    saved,            \* the book as saved at the output path by this run
    stdout,           \* lines printed by this run
    err,              \* the exception that left the function, if any
    written,          \* paths this run created, truncated or wrote
    readFiles,        \* paths this run read
    closeCount,       \* how often this run's writer was closed
    obstructed,       \* whether the file system refused the output in this run
    prev,             \* what the previous run enumerated and saved
    stem,             \* derive: the stem handed to lines 41-49
    worksheet_name    \* derive: the name lines 41-49 compute

vars == <<surface, typed, dirExists, listing, content, pc, run, output_file_name,
          csv_files, idx, sheets, saved, stdout, err, written, readFiles,
          closeCount, obstructed, prev, stem, worksheet_name>>

(***************************************************************************)
(* Bounds.                                                                 *)
(***************************************************************************)
MaxFiles == 2
MaxRuns == 2
MaxStemLen == 2

(***************************************************************************)
(* Strings.                                                                *)
(***************************************************************************)
Rep(c, n) == [i \in 1..n |-> c]

Take(s, n) == SubSeq(s, 1, IF Len(s) < n THEN Len(s) ELSE n)

EndsWith(s, suf) ==
    /\ Len(s) >= Len(suf)
    /\ SubSeq(s, Len(s) - Len(suf) + 1, Len(s)) = suf

RECURSIVE LStrip(_)
LStrip(s) == IF s # <<>> /\ Head(s) = " " THEN LStrip(Tail(s)) ELSE s

RECURSIVE RStrip(_)
RStrip(s) ==
    IF s # <<>> /\ s[Len(s)] = " " THEN RStrip(SubSeq(s, 1, Len(s) - 1)) ELSE s

Strip(s) == RStrip(LStrip(s))

Range(s) == {s[i] : i \in 1..Len(s)}

XLSX == <<".", "x", "l", "s", "x">>

DefaultName ==
    <<"c", "o", "m", "b", "i", "n", "e", "d", "_", "d", "a", "t", "a">> \o XLSX

(***************************************************************************)
(* validate_output_filename.                                               *)
(***************************************************************************)
validate_output_filename_always(filename) == filename \o XLSX

validate_output_filename(filename) ==
    IF ~EndsWith(filename, XLSX) THEN filename \o XLSX ELSE filename

(***************************************************************************)
(* folder_path.glob("*.csv") and csv_file.stem.                            *)
(***************************************************************************)
CsvPattern == <<".", "c", "s", "v">>

IsCsv_any(name) == TRUE

IsCsv(name) == EndsWith(name, CsvPattern)

glob_csv(entries) == SelectSeq(entries, IsCsv)

LastDot(name) ==
    LET ds == {i \in 1..Len(name) : name[i] = "."}
    IN IF ds = {} THEN 0 ELSE CHOOSE i \in ds : \A j \in ds : j <= i

Stem(name) ==
    LET p == LastDot(name)
    IN IF 1 < p /\ p < Len(name) THEN SubSeq(name, 1, p - 1) ELSE name

(***************************************************************************)
(* The worksheet name of lines 41-49.                                      *)
(***************************************************************************)
MaxSheetLen == 31

invalid_chars == <<"[", "]", "*", "?", ":", "/", "\\">>

Replace(s, c) == [i \in 1..Len(s) |-> IF s[i] = c THEN "_" ELSE s[i]]

RECURSIVE ReplaceEach(_, _)
ReplaceEach(s, chars) ==
    IF chars = <<>> THEN s ELSE ReplaceEach(Replace(s, Head(chars)), Tail(chars))

WorksheetName_noTruncate(st) == ReplaceEach(st, invalid_chars)

WorksheetName(st) == ReplaceEach(Take(st, MaxSheetLen), invalid_chars)

(***************************************************************************)
(* Inputs.                                                                 *)
(***************************************************************************)
Long31 == <<"r", "*", "?", ":", "\\">> \o Rep("a", MaxSheetLen - 5)

Pool ==
    { <<"a", "_">> \o CsvPattern,
      <<"a", "[">> \o CsvPattern,
      Long31 \o <<"x">> \o CsvPattern,
      Long31 \o <<"y">> \o CsvPattern,
      <<"n", ".", "C", "S", "V">> }

Listings ==
    UNION { { s \in [1..n -> Pool] : \A i, j \in 1..n : i # j => s[i] # s[j] } :
            n \in 0..MaxFiles }

TypedNames ==
    { <<>>,
      <<"r", "e", "p", "o", "r", "t">>,
      <<"r", "e", "p", "o", "r", "t">> \o XLSX,
      <<"r", "e", "p", "o", "r", "t", " ">>,
      <<"a", "_">> \o CsvPattern }

StemAlphabet == {"a", "_"} \cup Range(invalid_chars)

ShortStems == UNION { [1..n -> StemAlphabet] : n \in 0..MaxStemLen }

StemPool == ShortStems \cup { Rep("a", MaxSheetLen - 1) \o s : s \in ShortStems }

OutputNames == TypedNames \cup { Strip(t) : t \in TypedNames }

Entries == Pool \cup OutputNames \cup { n \o XLSX : n \in OutputNames } \cup {DefaultName}

NoError == [type |-> "none", cause |-> "none"]

NoPrev == [csv |-> <<>>, saved |-> <<>>, done |-> FALSE]

(***************************************************************************)
(* Errors.                                                                 *)
(***************************************************************************)
FileNotFound(what) == [type |-> "FileNotFoundError", cause |-> what]

WrapError_reraise(cause) == [type |-> cause, cause |-> cause]

WrapError(cause) == [type |-> "Exception", cause |-> cause]

(***************************************************************************)
(* Init.                                                                   *)
(***************************************************************************)
InitRunVars ==
    /\ csv_files = <<>>
    /\ idx = 0
    /\ sheets = <<>>
    /\ saved = <<>>
    /\ stdout = <<>>
    /\ err = NoError
    /\ written = {}
    /\ readFiles = {}
    /\ closeCount = 0
    /\ obstructed = FALSE

InitRun ==
    /\ surface \in {"main", "call", "default"}
    /\ typed \in IF surface = "default" THEN {<<>>} ELSE TypedNames
    /\ dirExists \in BOOLEAN
    /\ listing \in IF dirExists THEN Listings ELSE {<<>>}
    /\ content = [f \in Entries |-> "unknown"]
    /\ pc = IF surface = "main" THEN "main_folder" ELSE "check_folder"
    /\ run = 1
    /\ output_file_name = IF surface = "call" THEN typed
                          ELSE IF surface = "default" THEN DefaultName ELSE <<>>
    /\ InitRunVars
    /\ prev = NoPrev
    /\ stem = <<>>
    /\ worksheet_name = <<>>

InitDerive ==
    /\ surface = "derive"
    /\ typed = <<>>
    /\ dirExists = FALSE
    /\ listing = <<>>
    /\ content = [f \in Entries |-> "unknown"]
    /\ pc = "derive"
    /\ run = 1
    /\ output_file_name = <<>>
    /\ InitRunVars
    /\ prev = NoPrev
    /\ stem \in StemPool
    /\ worksheet_name = <<>>

Init == InitRun \/ InitDerive

(***************************************************************************)
(* main, lines 65-73.                                                      *)
(***************************************************************************)
validate_folder_path ==
    /\ pc = "main_folder"
    /\ \/ /\ ~dirExists
          /\ err' = FileNotFound("folder")
          /\ pc' = "failed"
       \/ /\ dirExists
          /\ err' = err
          /\ pc' = "main_output"
    /\ UNCHANGED <<surface, typed, dirExists, listing, content, run,
                   output_file_name, csv_files, idx, sheets, saved, stdout,
                   written, readFiles, closeCount, obstructed, prev, stem,
                   worksheet_name>>

main_output ==
    /\ pc = "main_output"
    /\ output_file_name' = validate_output_filename(Strip(typed))
    /\ pc' = "check_folder"
    /\ UNCHANGED <<surface, typed, dirExists, listing, content, run, csv_files,
                   idx, sheets, saved, stdout, err, written, readFiles,
                   closeCount, obstructed, prev, stem, worksheet_name>>

(***************************************************************************)
(* combine_csv_files_to_excel, lines 18-28: the two checks.                *)
(***************************************************************************)
CheckFolder ==
    /\ pc = "check_folder"
    /\ \/ /\ ~dirExists
          /\ err' = FileNotFound("folder")
          /\ pc' = "failed"
       \/ /\ dirExists
          /\ err' = err
          /\ pc' = "glob"
    /\ UNCHANGED <<surface, typed, dirExists, listing, content, run,
                   output_file_name, csv_files, idx, sheets, saved, stdout,
                   written, readFiles, closeCount, obstructed, prev, stem,
                   worksheet_name>>

NoCsvRaises_never(files) == FALSE

NoCsvRaises(files) == files = <<>>

FindCsv ==
    /\ pc = "glob"
    /\ csv_files' = glob_csv(listing)
    /\ IF NoCsvRaises(csv_files')
       THEN /\ err' = FileNotFound("csv")
            /\ pc' = "failed"
       ELSE /\ err' = err
            /\ pc' = "open"
    /\ UNCHANGED <<surface, typed, dirExists, listing, content, run,
                   output_file_name, idx, sheets, saved, stdout, written,
                   readFiles, closeCount, obstructed, prev, stem,
                   worksheet_name>>

(***************************************************************************)
(* Line 34: the writer opens folder_path / output_file_name.  An empty     *)
(* name makes the path the folder itself, which cannot be opened.          *)
(***************************************************************************)
OpenWriter ==
    /\ pc = "open"
    /\ \/ /\ output_file_name # <<>>
          /\ written' = written \cup {output_file_name}
          /\ listing' = IF output_file_name \in Range(listing) THEN listing
                        ELSE Append(listing, output_file_name)
          /\ content' = [content EXCEPT ![output_file_name] = "read_error"]
          /\ sheets' = <<>>
          /\ idx' = 1
          /\ pc' = "loop"
          /\ UNCHANGED <<err, obstructed>>
       \/ /\ \E cause \in IF output_file_name = <<>> THEN {"IsADirectoryError"}
                          ELSE {"PermissionError"} :
                err' = WrapError(cause)
          /\ obstructed' = TRUE
          /\ pc' = "failed"
          /\ UNCHANGED <<written, listing, content, sheets, idx>>
    /\ UNCHANGED <<surface, typed, dirExists, run, output_file_name, csv_files,
                   saved, stdout, readFiles, closeCount, prev, stem,
                   worksheet_name>>

(***************************************************************************)
(* Lines 35-56: one iteration of the loop.                                 *)
(***************************************************************************)
Outcomes == {"ok", "read_error", "excel_error", "excel_partial"}

SheetIndex(book, name) == {i \in 1..Len(book) : book[i].name = name}

to_excel(book, name, file) ==
    IF SheetIndex(book, name) # {}
    THEN LET i == CHOOSE k \in SheetIndex(book, name) : TRUE
         IN [book EXCEPT ![i].files = Append(@, file)]
    ELSE Append(book, [name |-> name, files |-> <<file>>])

ErrorLine(file, cause) == [kind |-> "error", name |-> file, cause |-> cause]

SuccessLine(path) == [kind |-> "success", name |-> path, cause |-> "none"]

ProcessFile ==
    /\ pc = "loop"
    /\ idx <= Len(csv_files)
    /\ LET csv_file == csv_files[idx]
       IN \E o \in Outcomes :
            /\ content[csv_file] \in {"unknown", o}
            /\ content' = [content EXCEPT ![csv_file] = o]
            /\ readFiles' = readFiles \cup {csv_file}
            /\ sheets' = IF o \in {"ok", "excel_partial"}
                         THEN to_excel(sheets, WorksheetName(Stem(csv_file)), csv_file)
                         ELSE sheets
            /\ stdout' = IF o = "ok" THEN stdout
                         ELSE Append(stdout, ErrorLine(csv_file, o))
            /\ idx' = idx + 1
    /\ UNCHANGED <<surface, typed, dirExists, listing, pc, run,
                   output_file_name, csv_files, saved, err, written,
                   closeCount, obstructed, prev, stem, worksheet_name>>

(***************************************************************************)
(* Leaving the with block of line 34 closes the writer, which saves the    *)
(* book; lines 58-61.                                                      *)
(***************************************************************************)
CloseWriter ==
    /\ pc = "loop"
    /\ idx > Len(csv_files)
    /\ closeCount' = closeCount + 1
    /\ \/ /\ sheets = <<>>
          /\ err' = WrapError("IndexError")
          /\ pc' = "failed"
          /\ UNCHANGED <<saved, obstructed>>
       \/ /\ sheets # <<>>
          /\ saved' = sheets
          /\ pc' = "print"
          /\ UNCHANGED <<err, obstructed>>
       \/ /\ sheets # <<>>
          /\ err' = WrapError("OSError")
          /\ obstructed' = TRUE
          /\ pc' = "failed"
          /\ UNCHANGED saved
    /\ UNCHANGED <<surface, typed, dirExists, listing, content, run,
                   output_file_name, csv_files, idx, sheets, stdout, written,
                   readFiles, prev, stem, worksheet_name>>

PrintSuccess ==
    /\ pc = "print"
    /\ stdout' = Append(stdout, SuccessLine(output_file_name))
    /\ pc' = "done"
    /\ UNCHANGED <<surface, typed, dirExists, listing, content, run,
                   output_file_name, csv_files, idx, sheets, saved, err,
                   written, readFiles, closeCount, obstructed, prev, stem,
                   worksheet_name>>

(***************************************************************************)
(* The program is started again on the same folder with the same inputs.   *)
(***************************************************************************)
Rerun ==
    /\ pc = "done"
    /\ run < MaxRuns
    /\ run' = run + 1
    /\ prev' = [csv |-> csv_files, saved |-> saved, done |-> TRUE]
    /\ pc' = IF surface = "main" THEN "main_folder" ELSE "check_folder"
    /\ output_file_name' = IF surface = "main" THEN <<>> ELSE output_file_name
    /\ csv_files' = <<>>
    /\ idx' = 0
    /\ sheets' = <<>>
    /\ saved' = <<>>
    /\ stdout' = <<>>
    /\ err' = NoError
    /\ written' = {}
    /\ readFiles' = {}
    /\ closeCount' = 0
    /\ obstructed' = FALSE
    /\ UNCHANGED <<surface, typed, dirExists, listing, content, stem,
                   worksheet_name>>

(***************************************************************************)
(* Lines 41-49 applied to a stem.                                          *)
(***************************************************************************)
Derive ==
    /\ pc = "derive"
    /\ worksheet_name' = WorksheetName(stem)
    /\ pc' = "derived"
    /\ UNCHANGED <<surface, typed, dirExists, listing, content, run,
                   output_file_name, csv_files, idx, sheets, saved, stdout,
                   err, written, readFiles, closeCount, obstructed, prev, stem>>

Next ==
    \/ validate_folder_path
    \/ main_output
    \/ CheckFolder
    \/ FindCsv
    \/ OpenWriter
    \/ ProcessFile
    \/ CloseWriter
    \/ PrintSuccess
    \/ Rerun
    \/ Derive

Spec == Init /\ [][Next]_vars

(***************************************************************************)
(* Vocabulary of the properties.                                           *)
(***************************************************************************)
Terminal == pc \in {"done", "failed"}

Enumerated == pc \in {"open", "loop", "print", "done"} \/ (pc = "failed" /\ csv_files # <<>>)

Handled == {csv_files[j] : j \in 1..(idx - 1)}

Converted == {f \in Handled : content[f] = "ok"}

Faulted == {f \in Handled : content[f] # "ok"}

SheetSources(book) == UNION {Range(book[i].files) : i \in 1..Len(book)}

ErrorLinesFor(f) == {i \in 1..Len(stdout) : stdout[i].kind = "error" /\ stdout[i].name = f}

SuccessLines == {i \in 1..Len(stdout) : stdout[i].kind = "success"}

Forbidden == {"[", "]", "*", "?", ":", "/", "\\"}

EndsInXlsx(s) ==
    /\ Len(s) >= 5
    /\ s[Len(s) - 4] = "." /\ s[Len(s) - 3] = "x" /\ s[Len(s) - 2] = "l"
    /\ s[Len(s) - 1] = "s" /\ s[Len(s)] = "x"

XlsxOutput == EndsInXlsx(output_file_name)

EndsInCsv(s) ==
    /\ Len(s) >= 4
    /\ s[Len(s) - 3] = "." /\ s[Len(s) - 2] = "c" /\ s[Len(s) - 1] = "s"
    /\ s[Len(s)] = "v"

Report == <<"r", "e", "p", "o", "r", "t">>

ReportXlsx == <<"r", "e", "p", "o", "r", "t", ".", "x", "l", "s", "x">>

CombinedDataXlsx ==
    <<"c", "o", "m", "b", "i", "n", "e", "d", "_", "d", "a", "t", "a", ".", "x",
      "l", "s", "x">>

DerivedFrom(st, nm) ==
    /\ Len(nm) <= 31
    /\ Len(nm) = (IF Len(st) > 31 THEN 31 ELSE Len(st))
    /\ \A i \in 1..Len(nm) :
         /\ nm[i] = (IF st[i] \in Forbidden THEN "_" ELSE st[i])
         /\ nm[i] \notin Forbidden

(***************************************************************************)
(* C1: in a folder that exists and holds at least one *.csv, with no write *)
(* obstruction, the run ends successfully and the saved workbook has       *)
(* exactly one worksheet per successfully processed CSV, whatever the      *)
(* per-file outcomes and the stems.  (Stated for an output name that ends  *)
(* in .xlsx.)                                                              *)
(***************************************************************************)
C1_OneSheetPerCsv ==
    (Terminal /\ csv_files # <<>> /\ ~obstructed /\ XlsxOutput) =>
        /\ pc = "done"
        /\ Len(saved) = Cardinality(Converted)

(***************************************************************************)
(* C2: a per-file fault is recoverable: the failing file contributes no    *)
(* worksheet and exactly one diagnostic line, every sibling that converts  *)
(* has its worksheet, every enumerated file is still handled, and the run  *)
(* is not aborted because of the fault.  (Stated for an output name that   *)
(* ends in .xlsx.)                                                         *)
(***************************************************************************)
C2_PerFileFaultRecoverable ==
    XlsxOutput =>
        /\ \A f \in Faulted :
             /\ f \notin SheetSources(sheets)
             /\ Cardinality(ErrorLinesFor(f)) = 1
        /\ \A f \in Converted :
             /\ f \in SheetSources(sheets)
             /\ ErrorLinesFor(f) = {}
        /\ (Terminal /\ csv_files # <<>> /\ ~obstructed) =>
             /\ Handled = Range(csv_files)
             /\ pc = "done"

(***************************************************************************)
(* C3: when the folder does not exist or holds no *.csv entry, the run     *)
(* can only end with FileNotFoundError: the writer is never opened, no     *)
(* path is written, no CSV is read and nothing is printed.                 *)
(***************************************************************************)
C3_NotFoundWritesNothing ==
    (surface # "derive" /\ (~dirExists \/ \A i \in 1..Len(listing) : ~EndsInCsv(listing[i]))) =>
        /\ pc \in {"main_folder", "main_output", "check_folder", "glob", "failed"}
        /\ pc = "failed" => err.type = "FileNotFoundError"
        /\ written = {}
        /\ readFiles = {}
        /\ stdout = <<>>
        /\ closeCount = 0
        /\ saved = <<>>

C3_Witness ==
    /\ pc = "failed"
    /\ dirExists
    /\ listing # <<>>
    /\ \A i \in 1..Len(listing) : ~EndsInCsv(listing[i])
    /\ err.type = "FileNotFoundError"

C5_DefaultName ==
    (surface = "default" \/ (surface = "main" /\ typed = <<>>)) =>
        \A p \in written : p = CombinedDataXlsx

(***************************************************************************)
(* C6: the derived worksheet name is the first 31 characters of the stem   *)
(* with each of [ ] * ? : / \ replaced by _: at most 31 long, as long as   *)
(* the truncated stem, free of the seven characters; every worksheet of    *)
(* the book carries such a name.                                           *)
(***************************************************************************)
C6_WorksheetNameDerivation ==
    /\ pc = "derived" => DerivedFrom(stem, worksheet_name)
    /\ \A i \in 1..Len(sheets) :
         \A f \in Range(sheets[i].files) : DerivedFrom(Stem(f), sheets[i].name)
    /\ \A i \in 1..Len(saved) :
         \A f \in Range(saved[i].files) : DerivedFrom(Stem(f), saved[i].name)

C6_Witness ==
    /\ pc = "derived"
    /\ Len(stem) = 32
    /\ stem[31] = "\\"
    /\ stem[32] = "/"
    /\ Len(worksheet_name) = 31
    /\ worksheet_name[31] = "_"

(***************************************************************************)
(* C7: files are handled one at a time in enumeration order and the        *)
(* worksheets of the saved workbook are, in order, the successfully        *)
(* processed files of the enumeration.  (Stated for an output name that    *)
(* ends in .xlsx.)                                                         *)
(***************************************************************************)
C7_SheetOrderIsEnumerationOrder ==
    LET good == SelectSeq(csv_files, LAMBDA f : content[f] = "ok")
    IN /\ readFiles = Handled
       /\ (pc = "done" /\ XlsxOutput) =>
            /\ Len(saved) = Len(good)
            /\ \A i \in 1..Len(saved) : saved[i].files = <<good[i]>>

(***************************************************************************)
(* C8: the workbook is finalized at most once per run and only after every *)
(* enumerated file was handled; a failed finalization ends the run with a  *)
(* generic error that carries the cause and is no FileNotFoundError, and   *)
(* prints no confirmation; the confirmation naming the output path is      *)
(* printed only after a successful finalization, and a run ends            *)
(* successfully exactly with it printed.                                   *)
(***************************************************************************)
C8_FinalizeOnceThenConfirm ==
    /\ closeCount <= 1
    /\ closeCount = 1 =>
         /\ idx = Len(csv_files) + 1
         /\ readFiles = Range(csv_files)
         /\ pc \in {"print", "done", "failed"}
    /\ pc \in {"print", "done"} => (closeCount = 1 /\ saved = sheets /\ err = NoError)
    /\ (pc = "failed" /\ closeCount = 1) =>
         /\ err.type = "Exception"
         /\ err.type # "FileNotFoundError"
         /\ err.cause \in {"IndexError", "OSError"}
         /\ saved = <<>>
    /\ SuccessLines # {} <=> pc = "done"
    /\ \A i \in SuccessLines : i = Len(stdout) /\ stdout[i].name = output_file_name

C8_Witness ==
    /\ pc = "failed"
    /\ closeCount = 1
    /\ Len(csv_files) = 2
    /\ err.cause = "OSError"
    /\ sheets # <<>>

(***************************************************************************)
(* C9: two stems that derive the same worksheet name and both convert end  *)
(* the run with a duplicate-sheet fault at finalization; in a successful   *)
(* run the worksheet names are pairwise distinct and each worksheet comes  *)
(* from exactly one source file.  (Stated for an output name that ends in  *)
(* .xlsx.)                                                                 *)
(***************************************************************************)
C9_CollisionIsFatal ==
    LET collide == \E f, g \in Converted :
                       f # g /\ WorksheetName(Stem(f)) = WorksheetName(Stem(g))
    IN /\ (Terminal /\ collide /\ XlsxOutput) =>
            (pc = "failed" /\ closeCount = 1 /\ err.type = "Exception")
       /\ (pc = "done" /\ XlsxOutput) =>
            /\ \A i, j \in 1..Len(saved) : i # j => saved[i].name # saved[j].name
            /\ \A i \in 1..Len(saved) :
                 Cardinality(Range(saved[i].files) \cap Converted) <= 1

====
